---- MODULE Spec2Model ----
(***************************************************************************)
(* A model of the TicketHub front end: the ticket dashboard (form, board,  *)
(* filters), the log dashboard (GET /logs, filter + sort, log form with    *)
(* POST /logs) and the server page (GET /servers/list, rack drill-down).   *)
(*                                                                         *)
(* Text is a sequence of one-character strings, so that toLowerCase, trim, *)
(* includes, slice and parseInt are computed and not assumed.  A missing   *)
(* (undefined) field is the value Undefined.                               *)
(***************************************************************************)
EXTENDS Integers, Sequences, FiniteSets, TLC

VARIABLES
    page,            \* which component is mounted
    tickets,         \* Dashboard: the in-memory collection (tickets or logs)
    open,            \* Dashboard: the form dialog is open
    role,            \* Dashboard: "Engineer" | "Technician"
    loading,         \* Dashboard (log) / ServerDataCenterPage: loading flag
    error,           \* ServerDataCenterPage: error string or Null
    searchQuery,     \* Dashboard: text query
    priorityFilter,  \* Dashboard (ticket): priority selector
    statusFilter,    \* Dashboard (ticket): status selector
    severityFilter,  \* Dashboard (log): severity selector
    title,           \* TicketForm field
    description,     \* TicketForm field
    priority,        \* TicketForm field
    hostname,        \* TicketForm (log) field
    formLoading,     \* TicketForm (log): loading flag
    selectedIds,     \* TicketBoard (ticket): the selection, an array of ids
    servers,         \* ServerDataCenterPage: the server collection
    selectedRack,    \* ServerDataCenterPage: rack label or Null
    now,             \* the millisecond clock read by Date.now()
    network,         \* requests sent and not yet answered
    lastOp           \* history: the handler that ran last, what it was given,
                     \* and the calls it made to the outside (callback, alert,
                     \* request sent)

dashVars   == <<tickets, open, role, loading>>
filterVars == <<searchQuery, priorityFilter, statusFilter, severityFilter>>
formVars   == <<title, description, priority, hostname, formLoading>>
serverVars == <<servers, selectedRack, error>>
vars == <<page, tickets, open, role, loading, error, searchQuery,
          priorityFilter, statusFilter, severityFilter, title, description,
          priority, hostname, formLoading, selectedIds, servers,
          selectedRack, now, network, lastOp>>

-----------------------------------------------------------------------------
(* Bounds of the model. *)

\* the ticket collection is never grown beyond this many entries
MaxTickets == 2
\* the clock stops advancing at this reading
MaxClock == 1
\* the longest ticket collection the filter is applied to
MaxDrawn == 2
\* the longest array a GET response carries
MaxArray == 3

-----------------------------------------------------------------------------
(* Values. *)

Null == "null"
Undefined == <<"undefined">>

TicketPage == "TicketDashboard"
LogPage    == "LogDashboard"
ServerPage == "ServerDataCenterPage"

Statuses   == {"Open", "In Progress", "Resolved"}
Roles      == {"Engineer", "Technician"}

\* the outside calls a handler makes
Effect(type, arg) == [type |-> type, arg |-> arg]
Op(name, arg, effects) == [op |-> name, arg |-> arg, effects |-> effects]

-----------------------------------------------------------------------------
(* JavaScript string operations, on sequences of characters. *)

Range(s) == {s[i] : i \in 1..Len(s)}

LowerChar(c) ==
    CASE c = "A" -> "a"
      [] c = "B" -> "b"
      [] c = "C" -> "c"
      [] OTHER   -> c

toLowerCase(s) == [i \in 1..Len(s) |-> LowerChar(s[i])]

includes(s, q) ==
    \E i \in 0..(Len(s) - Len(q)) : SubSeq(s, i + 1, i + Len(q)) = q

IsWhiteSpace(c) == c \in {" ", "\t"}

RECURSIVE trimStart(_)
trimStart(s) ==
    IF s # <<>> /\ IsWhiteSpace(Head(s)) THEN trimStart(Tail(s)) ELSE s

RECURSIVE trimEnd(_)
trimEnd(s) ==
    IF s # <<>> /\ IsWhiteSpace(s[Len(s)])
    THEN trimEnd(SubSeq(s, 1, Len(s) - 1))
    ELSE s

NoTrim(s) == s
trim(s) == trimEnd(trimStart(s))

\* s.slice(-1): the last character, or the empty string
sliceLast(s) == IF s = <<>> THEN <<>> ELSE <<s[Len(s)]>>

NaN == -1
DigitValue(c) ==
    CASE c = "0" -> 0 [] c = "1" -> 1 [] c = "2" -> 2 [] c = "3" -> 3
      [] c = "4" -> 4 [] c = "5" -> 5 [] c = "6" -> 6 [] c = "7" -> 7
      [] c = "8" -> 8 [] c = "9" -> 9 [] OTHER -> NaN

\* parseInt of a string of at most one character
parseInt(s) == IF s = <<>> THEN NaN ELSE DigitValue(s[1])

\* x || d for a string-or-undefined x
OrElse(x, d) == IF x = Undefined \/ x = <<>> THEN d ELSE x

\* n || 0 for a number n
OrZero(n) == IF n = NaN \/ n = 0 THEN 0 ELSE n

-----------------------------------------------------------------------------
(* The ticket dashboard: Dashboard (ticket variant), its TicketForm and    *)
(* its TicketBoard.                                                        *)

TicketPriorities == {"Low", "Medium", "High"}
PriorityFilters  == {"All", "High", "Medium", "Low"}
StatusFilters    == {"All"} \cup Statuses

\* setTickets(prev => [...prev, {...ticket, id: Date.now(), reporter, assignee}])
handleAddTicket(prev, ticket) ==
    Append(prev,
           [title       |-> ticket.title,
            description |-> ticket.description,
            priority    |-> ticket.priority,
            status      |-> ticket.status,
            id          |-> now,
            reporter    |-> "Engineer " \o ToString(Len(prev) + 1),
            assignee    |-> "Technician " \o ToString((Len(prev) % 3) + 1)])

\* setTickets(prev => prev.filter(t => !ids.includes(t.id)))
handleDelete(prev, ids) ==
    SelectSeq(prev, LAMBDA t : t.id \notin Range(ids))

\* setTickets(prev => prev.map(t => t.id === id ? {...t, status} : t))
handleStatusChange(prev, id, newStatus) ==
    [i \in 1..Len(prev) |->
        IF prev[i].id = id THEN [prev[i] EXCEPT !.status = newStatus]
                           ELSE prev[i]]

\* the filter predicate with the status selector forgotten
TicketMatchesNoStatus(t, q, pf, sf) ==
    LET query           == toLowerCase(q)
        matchesSearch   == \/ includes(toLowerCase(t.title), query)
                           \/ includes(toLowerCase(t.description), query)
        matchesPriority == pf = "All" \/ t.priority = pf
    IN  matchesSearch /\ matchesPriority

\* the ticket dashboard's filter predicate
TicketMatches(t, q, pf, sf) ==
    LET query           == toLowerCase(q)
        matchesSearch   == \/ includes(toLowerCase(t.title), query)
                           \/ includes(toLowerCase(t.description), query)
        matchesPriority == pf = "All" \/ t.priority = pf
        matchesStatus   == sf = "All" \/ t.status = sf
    IN  matchesSearch /\ matchesPriority /\ matchesStatus

\* useMemo(() => tickets.filter(...), [tickets, searchQuery, ...])
TicketView(ts, q, pf, sf) ==
    SelectSeq(ts, LAMBDA t : TicketMatches(t, q, pf, sf))

\* TicketBoard: prev => checked ? [...prev, id] : prev.filter(x => x !== id)
handleSelect(prev, id, checked) ==
    IF checked THEN Append(prev, id)
               ELSE SelectSeq(prev, LAMBDA x : x # id)

\* Date.now() advances
Tick ==
    /\ now < MaxClock
    /\ now' = now + 1
    /\ lastOp' = Op("tick", <<>>, <<>>)
    /\ UNCHANGED <<page, dashVars, filterVars, formVars, serverVars,
                   selectedIds, network>>

\* Sidebar: onNewTicket={() => setOpen(true)}
OpenForm ==
    /\ page \in {TicketPage, LogPage}
    /\ open' = TRUE
    /\ lastOp' = Op("setOpen", TRUE, <<>>)
    /\ UNCHANGED <<page, tickets, role, loading, filterVars, formVars,
                   serverVars, selectedIds, now, network>>

\* Dialog: onOpenChange={setOpen}, the user dismisses the dialog
CloseForm ==
    /\ page \in {TicketPage, LogPage}
    /\ open
    /\ open' = FALSE
    /\ lastOp' = Op("setOpen", FALSE, <<>>)
    /\ UNCHANGED <<page, tickets, role, loading, filterVars, formVars,
                   serverVars, selectedIds, now, network>>

\* the form's inputs are rendered while the dialog is open and, in the log
\* form, enabled while no submission is loading
FormEditable == page \in {TicketPage, LogPage} /\ open /\ ~formLoading

SetTitle(v) ==
    /\ FormEditable
    /\ title' = v
    /\ lastOp' = Op("setTitle", v, <<>>)
    /\ UNCHANGED <<page, dashVars, filterVars, description, priority,
                   hostname, formLoading, serverVars, selectedIds, now,
                   network>>

SetDescription(v) ==
    /\ FormEditable
    /\ description' = v
    /\ lastOp' = Op("setDescription", v, <<>>)
    /\ UNCHANGED <<page, dashVars, filterVars, title, priority, hostname,
                   formLoading, serverVars, selectedIds, now, network>>

LogPriorities == {"Low", "Medium", "High", "Critical"}

SetPriority(v) ==
    /\ FormEditable
    /\ v \in (IF page = TicketPage THEN TicketPriorities ELSE LogPriorities)
    /\ priority' = v
    /\ lastOp' = Op("setPriority", v, <<>>)
    /\ UNCHANGED <<page, dashVars, filterVars, title, description, hostname,
                   formLoading, serverVars, selectedIds, now, network>>

\* TicketForm.handleSubmit, ticket variant
TicketHandleSubmit ==
    /\ page = TicketPage
    /\ open
    /\ IF trim(title) = <<>>
       THEN /\ lastOp' = Op("handleSubmit", <<>>, <<>>)
            /\ UNCHANGED <<tickets, open, title, description>>
       ELSE LET ticket == [title |-> title, description |-> description,
                           priority |-> priority, status |-> "Open"]
            IN  /\ Len(tickets) < MaxTickets
                /\ tickets' = handleAddTicket(tickets, ticket)
                /\ title' = <<>>
                /\ description' = <<>>
                /\ open' = FALSE
                /\ lastOp' = Op("handleSubmit", <<>>,
                                <<Effect("onSubmit", ticket)>>)
    /\ UNCHANGED <<page, role, loading, filterVars, priority, hostname,
                   formLoading, serverVars, selectedIds, now, network>>

\* Header: <Select value={role} onValueChange={setRole}>
SetRole(r) ==
    /\ page \in {TicketPage, LogPage}
    /\ r \in Roles
    /\ r # role
    /\ role' = r
    /\ lastOp' = Op("setRole", r, <<>>)
    /\ UNCHANGED <<page, tickets, open, loading, filterVars, formVars,
                   serverVars, selectedIds, now, network>>

\* what the ticket board is given to render
filteredTickets ==
    TicketView(tickets, searchQuery, priorityFilter, statusFilter)

\* the controls rendered for every role
BoardControlsAnyRole == page = TicketPage /\ filteredTickets # <<>>

\* TicketBoard renders rows (and, for a technician, the controls) only when
\* the view is not empty
BoardControls ==
    page = TicketPage /\ role = "Technician" /\ filteredTickets # <<>>

\* Checkbox of a row: onCheckedChange={(checked) => handleSelect(id, checked)}
HandleSelect(i) ==
    /\ BoardControls
    /\ i \in 1..Len(filteredTickets)
    /\ LET id      == filteredTickets[i].id
           checked == id \notin Range(selectedIds)
       IN  /\ selectedIds' = handleSelect(selectedIds, id, checked)
           /\ lastOp' = Op("handleSelect", <<id, checked>>, <<>>)
    /\ UNCHANGED <<page, dashVars, filterVars, formVars, serverVars, now,
                   network>>

\* a handleDeleteSelected that leaves the selection as it is
HandleDeleteSelectedKeep ==
    /\ BoardControls
    /\ Len(selectedIds) > 0
    /\ tickets' = handleDelete(tickets, selectedIds)
    /\ selectedIds' = selectedIds
    /\ lastOp' = Op("handleDelete", selectedIds, <<>>)
    /\ UNCHANGED <<page, open, role, loading, filterVars, formVars,
                   serverVars, now, network>>

\* a handleDeleteSelected that deletes the selected rows of the view only
HandleDeleteSelectedShown ==
    /\ BoardControls
    /\ Len(selectedIds) > 0
    /\ tickets' = handleDelete(tickets,
                      SelectSeq(selectedIds,
                                LAMBDA x : x \in {filteredTickets[i].id :
                                                    i \in 1..Len(filteredTickets)}))
    /\ selectedIds' = <<>>
    /\ lastOp' = Op("handleDelete", selectedIds, <<>>)
    /\ UNCHANGED <<page, open, role, loading, filterVars, formVars,
                   serverVars, now, network>>

\* TicketBoard.handleDeleteSelected, behind the Delete Selected button
\* (disabled while nothing is selected)
HandleDeleteSelected ==
    /\ BoardControls
    /\ Len(selectedIds) > 0
    /\ tickets' = handleDelete(tickets, selectedIds)
    /\ selectedIds' = <<>>
    /\ lastOp' = Op("handleDelete", selectedIds, <<>>)
    /\ UNCHANGED <<page, open, role, loading, filterVars, formVars,
                   serverVars, now, network>>

\* status Select of a row: onValueChange={(val) => onStatusChange?.(id, val)}
HandleStatusChange(i, val) ==
    /\ BoardControls
    /\ i \in 1..Len(filteredTickets)
    /\ val \in Statuses
    /\ val # filteredTickets[i].status
    /\ tickets' = handleStatusChange(tickets, filteredTickets[i].id, val)
    /\ lastOp' = Op("handleStatusChange", <<filteredTickets[i].id, val>>, <<>>)
    /\ UNCHANGED <<page, open, role, loading, filterVars, formVars,
                   serverVars, selectedIds, now, network>>

SetSearchQuery(v) ==
    /\ page \in {TicketPage, LogPage}
    /\ searchQuery' = v
    /\ lastOp' = Op("setSearchQuery", v, <<>>)
    /\ UNCHANGED <<page, dashVars, priorityFilter, statusFilter,
                   severityFilter, formVars, serverVars, selectedIds, now,
                   network>>

SetPriorityFilter(v) ==
    /\ page = TicketPage
    /\ v \in PriorityFilters
    /\ v # priorityFilter
    /\ priorityFilter' = v
    /\ lastOp' = Op("setPriorityFilter", v, <<>>)
    /\ UNCHANGED <<page, dashVars, searchQuery, statusFilter, severityFilter,
                   formVars, serverVars, selectedIds, now, network>>

SetStatusFilter(v) ==
    /\ page = TicketPage
    /\ v \in StatusFilters
    /\ v # statusFilter
    /\ statusFilter' = v
    /\ lastOp' = Op("setStatusFilter", v, <<>>)
    /\ UNCHANGED <<page, dashVars, searchQuery, priorityFilter,
                   severityFilter, formVars, serverVars, selectedIds, now,
                   network>>

\* the state of every component right after it is constructed
Unmounted ==
    /\ tickets = <<>> /\ open = FALSE /\ role = "Engineer"
    /\ loading = FALSE /\ error = Null
    /\ searchQuery = <<>> /\ priorityFilter = "All" /\ statusFilter = "All"
    /\ severityFilter = "All"
    /\ title = <<>> /\ description = <<>> /\ priority = "Medium"
    /\ hostname = <<>> /\ formLoading = FALSE
    /\ selectedIds = <<>>
    /\ servers = <<>> /\ selectedRack = Null
    /\ now = 0 /\ network = <<>>
    /\ lastOp = Op("mount", <<>>, <<>>)

-----------------------------------------------------------------------------
(* The ticket board under add, select, delete, status change, role change  *)
(* and the status filter, with the clock.                                  *)

BoardTitles == {<<>>, <<"a">>}

InitBoard == page = TicketPage /\ Unmounted

NextBoard ==
    \/ Tick
    \/ OpenForm
    \/ CloseForm
    \/ \E v \in BoardTitles : SetTitle(v)
    \/ TicketHandleSubmit
    \/ \E r \in Roles : SetRole(r)
    \/ \E i \in 1..MaxTickets : HandleSelect(i)
    \/ HandleDeleteSelected
    \/ \E i \in 1..MaxTickets, val \in Statuses : HandleStatusChange(i, val)
    \/ \E v \in StatusFilters : SetStatusFilter(v)

SpecBoard == InitBoard /\ [][NextBoard]_vars

-----------------------------------------------------------------------------
(* HTTP: a request in flight and the ways it can be answered.              *)

Request(method, url, body) == [method |-> method, url |-> url, body |-> body]

\* kind: "ok" (2xx with a JSON body), "http_error" (a non-2xx status),
\* "network_error" (fetch rejects), "bad_body" (2xx, res.json() rejects)
Response(kind, status, data) == [kind |-> kind, status |-> status, data |-> data]

Failures ==
    { Response("http_error", 500, <<>>),
      Response("http_error", 404, <<>>),
      Response("network_error", 0, <<>>),
      Response("bad_body", 200, <<>>) }

\* the try block runs to its end: fetch resolved, res.ok held (if (!res.ok)
\* throw ...), res.json() resolved
tryCompletes(resp) == resp.kind = "ok"

\* the same without the res.ok check
noStatusCheck(resp) == resp.kind \in {"ok", "http_error"}

\* the sequence s without its k-th element
RemoveAt(s, k) == SubSeq(s, 1, k - 1) \o SubSeq(s, k + 1, Len(s))

-----------------------------------------------------------------------------
(* The log dashboard: Dashboard (log variant), its TicketForm and its      *)
(* TicketBoard.                                                            *)

SeverityFilters == {"All", "1", "2", "3", "4"}

\* parseInt((t.label || "").slice(-1)) || 0
priorityNum(t) == OrZero(parseInt(sliceLast(OrElse(t.label, <<>>))))

\* the log dashboard's filter predicate
LogMatches(t, q, sev) ==
    LET query           == toLowerCase(q)
        host            == toLowerCase(OrElse(t.hostname, <<>>))
        matchesSearch   == query = <<>> \/ includes(host, query)
        matchesSeverity == sev = "All" \/ priorityNum(t) = DigitValue(sev)
    IN  matchesSearch /\ matchesSeverity

\* a comparator that also orders equal keys, by descending id
compareTieBreak(a, b) ==
    IF priorityNum(a) = priorityNum(b) THEN b.id - a.id
    ELSE priorityNum(a) - priorityNum(b)

\* the comparator (a, b) => numA - numB
compare(a, b) == priorityNum(a) - priorityNum(b)

\* Array.prototype.sort is stable: x, which came after every element of the
\* sorted prefix s, goes after the elements that do not compare greater
RECURSIVE insert(_, _)
insert(s, x) ==
    IF s # <<>> /\ compare(s[Len(s)], x) > 0
    THEN Append(insert(SubSeq(s, 1, Len(s) - 1), x), s[Len(s)])
    ELSE Append(s, x)

RECURSIVE sort(_)
sort(s) ==
    IF s = <<>> THEN <<>>
    ELSE insert(sort(SubSeq(s, 1, Len(s) - 1)), s[Len(s)])

\* useMemo(() => tickets.filter(...).sort(...), [tickets, searchQuery, ...])
LogView(ts, q, sev) ==
    sort(SelectSeq(ts, LAMBDA t : LogMatches(t, q, sev)))

\* what the log board is given to render
filteredLogs == LogView(tickets, searchQuery, severityFilter)

\* useEffect(() => { fetchLogs() }, []): the GET sent on mount
LogsRequest == Request("GET", "/logs", <<>>)

MountLogs ==
    /\ tickets = <<>> /\ open = FALSE /\ role = "Engineer"
    /\ loading = TRUE /\ error = Null
    /\ searchQuery = <<>> /\ priorityFilter = "All" /\ statusFilter = "All"
    /\ severityFilter = "All"
    /\ title = <<>> /\ description = <<>> /\ priority = "Medium"
    /\ hostname = <<>> /\ formLoading = FALSE
    /\ selectedIds = <<>>
    /\ servers = <<>> /\ selectedRack = Null
    /\ now = 0 /\ network = <<LogsRequest>>
    /\ lastOp = Op("mount", <<>>, <<Effect("fetch", LogsRequest)>>)

logsFetched(resp) == tryCompletes(resp)

\* fetchLogs after its await: try / catch / finally
FetchLogsSettle(k, resp) ==
    /\ page = LogPage
    /\ k \in 1..Len(network)
    /\ network[k] = LogsRequest
    /\ network' = RemoveAt(network, k)
    /\ IF logsFetched(resp)
       THEN /\ tickets' = resp.data
            /\ lastOp' = Op("fetchLogs", resp, <<>>)
       ELSE /\ tickets' = tickets
            /\ lastOp' = Op("fetchLogs", resp, <<Effect("console.error", <<>>)>>)
    /\ loading' = FALSE
    /\ UNCHANGED <<page, open, role, filterVars, formVars, serverVars,
                   selectedIds, now>>

\* a severity selector whose recomputation sorts the collection itself
SetSeverityFilterSortInPlace(v) ==
    /\ page = LogPage
    /\ v \in SeverityFilters
    /\ v # severityFilter
    /\ severityFilter' = v
    /\ tickets' = sort(tickets)
    /\ lastOp' = Op("setSeverityFilter", v, <<>>)
    /\ UNCHANGED <<page, open, role, loading, searchQuery, priorityFilter,
                   statusFilter, formVars, serverVars, selectedIds, now,
                   network>>

SetSeverityFilter(v) ==
    /\ page = LogPage
    /\ v \in SeverityFilters
    /\ v # severityFilter
    /\ severityFilter' = v
    /\ lastOp' = Op("setSeverityFilter", v, <<>>)
    /\ UNCHANGED <<page, dashVars, searchQuery, priorityFilter, statusFilter,
                   formVars, serverVars, selectedIds, now, network>>

SetHostname(v) ==
    /\ page = LogPage
    /\ FormEditable
    /\ hostname' = v
    /\ lastOp' = Op("setHostname", v, <<>>)
    /\ UNCHANGED <<page, dashVars, filterVars, title, description, priority,
                   formLoading, serverVars, selectedIds, now, network>>

\* the number the severity Select shows for the choice ("1 - Critical")
severityDigit(p) ==
    CASE p = "Low" -> "4" [] p = "Medium" -> "3" [] p = "High" -> "2"
      [] p = "Critical" -> "1"

\* priority.charAt(0)
charAt0(p) ==
    CASE p = "Low" -> "L" [] p = "Medium" -> "M" [] p = "High" -> "H"
      [] p = "Critical" -> "C"

UnknownHost == <<"u","n","k","n","o","w","n","-","h","o","s","t">>

\* the body of the POST
payload ==
    [upload_ts |-> "Today",
     hostname  |-> OrElse(hostname, UnknownHost),
     label     |-> <<"B", "A", "D">> \o title \o <<"_", charAt0(priority)>>,
     log_line  |-> description]

\* the log dashboard passes onSubmit={() => {}}
logOnSubmit(prev, p) == prev

\* a Submit button that is never disabled
SubmitNeverDisabled == FALSE

\* <Button onClick={handleSubmit} disabled={loading}>
SubmitDisabled == formLoading

\* TicketForm.handleSubmit, log variant, up to its await
LogHandleSubmit ==
    /\ page = LogPage
    /\ open
    /\ ~SubmitDisabled
    /\ IF trim(title) = <<>> \/ trim(description) = <<>>
       THEN /\ lastOp' = Op("handleSubmit", <<>>, <<>>)
            /\ UNCHANGED <<formLoading, network>>
       ELSE LET req == Request("POST", "/logs", payload)
            IN  /\ formLoading' = TRUE
                /\ network' = Append(network, req)
                /\ lastOp' = Op("handleSubmit", <<>>, <<Effect("fetch", req)>>)
    /\ UNCHANGED <<page, dashVars, filterVars, title, description, priority,
                   hostname, serverVars, selectedIds, now>>

logCreatedNoStatusCheck(resp) == noStatusCheck(resp)
logCreated(resp) == tryCompletes(resp)

\* TicketForm.handleSubmit, log variant, after its await: try / catch / finally
LogSubmitSettle(k, resp) ==
    /\ page = LogPage
    /\ k \in 1..Len(network)
    /\ network[k].method = "POST"
    /\ network' = RemoveAt(network, k)
    /\ IF logCreated(resp)
       THEN /\ tickets' = logOnSubmit(tickets, network[k].body)
            /\ title' = <<>>
            /\ description' = <<>>
            /\ priority' = "Medium"
            /\ hostname' = <<>>
            /\ open' = FALSE
            /\ lastOp' = Op("submitSettled", resp,
                            <<Effect("onSubmit", network[k].body)>>)
       ELSE /\ lastOp' = Op("submitSettled", resp,
                            <<Effect("console.error", <<>>),
                              Effect("alert", <<>>)>>)
            /\ UNCHANGED <<tickets, title, description, priority, hostname,
                           open>>
    /\ formLoading' = FALSE
    /\ UNCHANGED <<page, role, loading, filterVars, serverVars, selectedIds,
                   now>>

-----------------------------------------------------------------------------
(* The server page: ServerDataCenterPage.                                  *)

TOTAL_RACKS == 36
AISLES == 6
RACKS_PER_AISLE == TOTAL_RACKS \div AISLES
RACK_LABELS == [i \in 1..TOTAL_RACKS |-> "R" \o ToString(i)]

ServersRequest == Request("GET", "/servers/list", <<>>)

MountServers ==
    /\ tickets = <<>> /\ open = FALSE /\ role = "Engineer"
    /\ loading = TRUE /\ error = Null
    /\ searchQuery = <<>> /\ priorityFilter = "All" /\ statusFilter = "All"
    /\ severityFilter = "All"
    /\ title = <<>> /\ description = <<>> /\ priority = "Medium"
    /\ hostname = <<>> /\ formLoading = FALSE
    /\ selectedIds = <<>>
    /\ servers = <<>> /\ selectedRack = Null
    /\ now = 0 /\ network = <<ServersRequest>>
    /\ lastOp = Op("mount", <<>>, <<Effect("fetch", ServersRequest)>>)

\* err.message of what fetchServers catches
errorMessage(resp) ==
    CASE resp.kind = "http_error" ->
            "Failed to fetch servers: " \o ToString(resp.status)
      [] resp.kind = "network_error" -> "Failed to fetch"
      [] resp.kind = "bad_body" -> "Unexpected end of JSON input"

\* data.servers || []
serversOf(data) ==
    IF "servers" \in DOMAIN data THEN data.servers ELSE <<>>

serversFetchedNoStatusCheck(resp) == noStatusCheck(resp)
serversFetched(resp) == tryCompletes(resp)

\* fetchServers after its await: try / catch / finally
FetchServersSettle(k, resp) ==
    /\ page = ServerPage
    /\ k \in 1..Len(network)
    /\ network[k] = ServersRequest
    /\ network' = RemoveAt(network, k)
    /\ IF serversFetched(resp)
       THEN /\ servers' = serversOf(resp.data)
            /\ error' = error
            /\ lastOp' = Op("fetchServers", resp, <<>>)
       ELSE /\ servers' = servers
            /\ error' = errorMessage(resp)
            /\ lastOp' = Op("fetchServers", resp,
                            <<Effect("console.error", <<>>)>>)
    /\ loading' = FALSE
    /\ UNCHANGED <<page, tickets, open, role, filterVars, formVars,
                   selectedIds, selectedRack, now>>

\* a string-or-null used as a condition
Truthy(x) == x # Null /\ x # ""

\* which of its four bodies the page renders
ServerView ==
    IF loading THEN "Loading"
    ELSE IF Truthy(error) THEN "Error"
    ELSE IF Truthy(selectedRack) THEN "RackDetail"
    ELSE "Overview"

\* every server in every bucket
rackLabelIgnored(s, r) == TRUE

\* s.rack?.label === r
rackLabelMatches(s, r) == s.rack.label = r

\* the keys of the map: for (const r of RACK_LABELS)
RackKeys == Range(RACK_LABELS)

\* useMemo: map[r] = servers.filter((s) => s.rack?.label === r), for every
\* r of RACK_LABELS
racks ==
    [r \in RackKeys |->
        SelectSeq(servers, LAMBDA s : rackLabelMatches(s, r))]

\* a slice that takes the element at its end index too
sliceInclusive(s, from, to) ==
    SubSeq(s, from + 1, IF to + 1 < Len(s) THEN to + 1 ELSE Len(s))

\* Array.prototype.slice(from, to), indices counted from 0, to excluded
slice(s, from, to) ==
    SubSeq(s, from + 1, IF to < Len(s) THEN to ELSE Len(s))

\* Array.from({ length: AISLES }, (_, i) =>
\*     RACK_LABELS.slice(i * RACKS_PER_AISLE, (i + 1) * RACKS_PER_AISLE))
aisleGroups ==
    [g \in 1..AISLES |->
        LET i == g - 1
        IN  slice(RACK_LABELS, i * RACKS_PER_AISLE, (i + 1) * RACKS_PER_AISLE)]

\* the servers an index-based comparison finds: srv.slot === slot - 1
findSlotOffByOne(rackServers, slot) ==
    SelectSeq(rackServers, LAMBDA srv : srv.slot = slot - 1)

\* rackServers.find((srv) => srv.slot === slot): the servers that satisfy
\* the test, of which find returns the first (undefined when there is none)
findSlot(rackServers, slot) ==
    SelectSeq(rackServers, LAMBDA srv : srv.slot = slot)

EmptySlot == "- Empty -"

\* one row of the rack view: s ? s.hostname : "- Empty -", Slot {slot}
SlotRow(rackServers, slot) ==
    LET s == findSlot(rackServers, slot)
    IN  [slot |-> slot,
         text |-> IF s # <<>> THEN s[1].hostname ELSE EmptySlot]

\* the card of the rack view: a message when the rack has no server, the
\* rows of Array.from({ length: 8 }, (_, i) => i + 1) otherwise
RackDetailRows ==
    LET rackServers == racks[selectedRack]
    IN  IF Len(rackServers) = 0 THEN <<>>
        ELSE [i \in 1..8 |-> SlotRow(rackServers, i)]

\* const count = racks[rackLabel]?.length ?? 0
rackCount(rackLabel) ==
    IF rackLabel \in RackKeys THEN Len(racks[rackLabel]) ELSE 0

\* {count ? `${count} servers` : "empty"}
rackCardText(rackLabel) ==
    LET count == rackCount(rackLabel)
    IN  IF count # 0 THEN ToString(count) \o " servers" ELSE "empty"

\* a rack card that is rendered in the rack view too
SelectRackAnywhere(r) ==
    /\ page = ServerPage
    /\ ServerView \in {"Overview", "RackDetail"}
    /\ Len(servers) # 0
    /\ r \in Range(RACK_LABELS)
    /\ selectedRack' = r
    /\ lastOp' = Op("setSelectedRack", r, <<>>)
    /\ UNCHANGED <<page, dashVars, filterVars, formVars, servers, error,
                   selectedIds, now, network>>

\* rack cards that are rendered for an empty server list too
SelectRackEmptyList(r) ==
    /\ page = ServerPage
    /\ ServerView = "Overview"
    /\ r \in Range(RACK_LABELS)
    /\ selectedRack' = r
    /\ lastOp' = Op("setSelectedRack", r, <<>>)
    /\ UNCHANGED <<page, dashVars, filterVars, formVars, servers, error,
                   selectedIds, now, network>>

\* a rack card of the overview: onClick={() => setSelectedRack(rackLabel)};
\* the cards are rendered when the server list is not empty
SelectRack(r) ==
    /\ page = ServerPage
    /\ ServerView = "Overview"
    /\ Len(servers) # 0
    /\ r \in Range(RACK_LABELS)
    /\ selectedRack' = r
    /\ lastOp' = Op("setSelectedRack", r, <<>>)
    /\ UNCHANGED <<page, dashVars, filterVars, formVars, servers, error,
                   selectedIds, now, network>>

\* the back button of the rack view: onClick={() => setSelectedRack(null)}
BackToOverview ==
    /\ page = ServerPage
    /\ ServerView = "RackDetail"
    /\ selectedRack' = Null
    /\ lastOp' = Op("setSelectedRack", Null, <<>>)
    /\ UNCHANGED <<page, dashVars, filterVars, formVars, servers, error,
                   selectedIds, now, network>>

-----------------------------------------------------------------------------
(* Inputs. *)

\* the sequences of length at most n over the set S
SeqsUpTo(S, n) == UNION {[1..m -> S] : m \in 0..n}

\* what is typed into the form
FormTitles       == {<<>>, <<" ">>, <<"a">>, <<"7">>}
FormDescriptions == {<<>>, <<" ", "\t">>, <<"b">>}
FormHostnames    == {<<>>, <<"h">>}

\* what is typed into the search box
Queries == {<<>>, <<"a", "B">>, <<"C">>}

\* log records as GET /logs returns them, the i-th with the server's id i
LogHostnames == {Undefined, <<"c">>, <<"x", "A", "b">>}
LogLabels    == {Undefined, <<"b">>, <<"x", "1">>, <<"x", "2">>}
LogArrays ==
    { [i \in 1..Len(s) |->
          [id |-> i, hostname |-> s[i][1], label |-> s[i][2],
           log_line |-> <<"e">>]]
      : s \in SeqsUpTo(LogHostnames \X LogLabels, MaxArray) }

\* ticket collections as add and status change build them, the i-th created
\* at clock reading i
TicketTexts == {<<<<"A">>, <<>>>>, <<<<"c">>, <<"x", "A", "b">>>>}
TicketArrays ==
    { [i \in 1..Len(s) |->
          [id |-> i, title |-> s[i][1][1], description |-> s[i][1][2],
           priority |-> s[i][2], status |-> s[i][3],
           reporter |-> "Engineer " \o ToString(i),
           assignee |-> "Technician " \o ToString(((i - 1) % 3) + 1)]]
      : s \in SeqsUpTo(TicketTexts \X TicketPriorities \X Statuses, MaxDrawn) }

\* server records as GET /servers/list returns them; the label "undefined"
\* stands for a server whose rack, or whose rack's label, is absent
ServerRackLabels == {"R1", "R2", "R37", "undefined"}
ServerSlots      == {2, 5}
ServerArrays ==
    { [i \in 1..Len(s) |->
          [rack |-> [label |-> s[i][1]], slot |-> s[i][2],
           hostname |-> "srv" \o ToString(i),
           serial_number |-> "SN" \o ToString(i)]]
      : s \in SeqsUpTo(ServerRackLabels \X ServerSlots, MaxArray) }

\* the JSON bodies of a successful GET /servers/list
ServerBodies ==
    {[servers |-> a] : a \in ServerArrays} \cup {[message |-> "none"]}

-----------------------------------------------------------------------------
(* The filtered views of both dashboards, over drawn ticket collections    *)
(* and fetched log arrays.                                                 *)

InitView ==
    \/ /\ page = TicketPage
       /\ tickets \in TicketArrays
       /\ open = FALSE /\ role = "Engineer"
       /\ loading = FALSE /\ error = Null
       /\ searchQuery = <<>> /\ priorityFilter = "All" /\ statusFilter = "All"
       /\ severityFilter = "All"
       /\ title = <<>> /\ description = <<>> /\ priority = "Medium"
       /\ hostname = <<>> /\ formLoading = FALSE
       /\ selectedIds = <<>>
       /\ servers = <<>> /\ selectedRack = Null
       /\ now = Len(tickets) /\ network = <<>>
       /\ lastOp = Op("mount", <<>>, <<>>)
    \/ /\ page = LogPage
       /\ MountLogs

NextView ==
    \/ \E v \in Queries : SetSearchQuery(v)
    \/ \E v \in PriorityFilters : SetPriorityFilter(v)
    \/ \E v \in StatusFilters : SetStatusFilter(v)
    \/ \E v \in SeverityFilters : SetSeverityFilter(v)
    \/ \E k \in 1..Len(network), a \in LogArrays :
          FetchLogsSettle(k, Response("ok", 200, a))
    \/ \E k \in 1..Len(network), resp \in Failures : FetchLogsSettle(k, resp)

SpecView == InitView /\ [][NextView]_vars

-----------------------------------------------------------------------------
(* The forms of both dashboards.                                           *)

InitForm ==
    \/ page = TicketPage /\ Unmounted
    \/ page = LogPage /\ MountLogs

PostResponses == {Response("ok", 201, <<>>)} \cup Failures

NextForm ==
    \/ OpenForm
    \/ CloseForm
    \/ \E v \in FormTitles : SetTitle(v)
    \/ \E v \in FormDescriptions : SetDescription(v)
    \/ \E v \in LogPriorities : SetPriority(v)
    \/ \E v \in FormHostnames : SetHostname(v)
    \/ TicketHandleSubmit
    \/ LogHandleSubmit
    \/ \E k \in 1..Len(network), resp \in PostResponses :
          LogSubmitSettle(k, resp)
    \/ \E k \in 1..Len(network) :
          FetchLogsSettle(k, Response("ok", 200, <<>>))
    \/ \E k \in 1..Len(network) :
          FetchLogsSettle(k, Response("http_error", 500, <<>>))

SpecForm == InitForm /\ [][NextForm]_vars

-----------------------------------------------------------------------------
(* The server page.                                                        *)

InitServers == page = ServerPage /\ MountServers

NextServers ==
    \/ \E k \in 1..Len(network), b \in ServerBodies :
          FetchServersSettle(k, Response("ok", 200, b))
    \/ \E k \in 1..Len(network), resp \in Failures :
          FetchServersSettle(k, resp)
    \/ \E r \in Range(RACK_LABELS) : SelectRack(r)
    \/ BackToOverview

SpecServers == InitServers /\ [][NextServers]_vars

-----------------------------------------------------------------------------
(* Properties.                                                             *)

IdsOf(ts) == {ts[i].id : i \in 1..Len(ts)}

\* the handler that ran in this step made the call `type`
Called(op, type) == \E e \in 1..Len(op.effects) : op.effects[e].type = type

\* C2: handleDelete(ids) keeps exactly the entries whose identifier is not
\* in ids, in their order and unchanged, and the size of the result is |C|
\* minus the number of identifiers that C and ids have in common.
C2_DeleteExact ==
    [][lastOp'.op = "handleDelete" =>
        LET ids == Range(lastOp'.arg)
        IN  /\ tickets' = SelectSeq(tickets, LAMBDA t : t.id \notin ids)
            /\ Len(tickets') =
                 Len(tickets) - Cardinality(IdsOf(tickets) \cap ids)]_vars

\* C3: handleStatusChange(id, newStatus) changes the status field of exactly
\* one entry, the one with that identifier, and leaves every other field,
\* every other entry, and the order and length of the collection unchanged.
C3_StatusChangeOne ==
    [][lastOp'.op = "handleStatusChange" =>
        LET id == lastOp'.arg[1]
            st == lastOp'.arg[2]
        IN  /\ Len(tickets') = Len(tickets)
            /\ Cardinality({i \in 1..Len(tickets) : tickets'[i] # tickets[i]}) = 1
            /\ \A i \in 1..Len(tickets) :
                  \/ tickets'[i] = tickets[i]
                  \/ /\ tickets[i].id = id
                     /\ tickets'[i] = [tickets[i] EXCEPT !.status = st]]_vars

\* C4: no two entries of the ticket collection have the same identifier.
C4_UniqueIds ==
    page = TicketPage =>
        \A i, j \in 1..Len(tickets) :
            i # j => tickets[i].id # tickets[j].id

-----------------------------------------------------------------------------
(* The filtered views.                                                     *)

\* text contains q somewhere, letter case ignored
ContainsIgnoreCase(text, q) ==
    \E off \in 0..(Len(text) - Len(q)) :
        \A k \in 1..Len(q) : LowerChar(text[off + k]) = LowerChar(q[k])

\* entry t of the ticket dashboard passes every active criterion
TicketPasses(t) ==
    /\ searchQuery # <<>> =>
          \/ ContainsIgnoreCase(t.title, searchQuery)
          \/ ContainsIgnoreCase(t.description, searchQuery)
    /\ priorityFilter # "All" => t.priority = priorityFilter
    /\ statusFilter # "All" => t.status = statusFilter

\* the severity key of a log entry: its label's last character as a number,
\* 0 when the label is missing or the character is no digit
SeverityKey(t) ==
    IF t.label = Undefined \/ t.label = <<>> THEN 0
    ELSE LET c == t.label[Len(t.label)]
         IN  IF c \in {"0", "1", "2", "3", "4", "5", "6", "7", "8", "9"}
             THEN DigitValue(c) ELSE 0

\* entry t of the log dashboard passes every active criterion
LogPasses(t) ==
    /\ searchQuery # <<>> =>
          /\ t.hostname # Undefined
          /\ ContainsIgnoreCase(t.hostname, searchQuery)
    /\ severityFilter # "All" =>
          SeverityKey(t) = DigitValue(severityFilter)

\* view holds exactly the entries of coll that pass, each once
ExactlyThePassing(view, coll, Passes(_)) ==
    /\ \A i \in 1..Len(view) :
          /\ \E j \in 1..Len(coll) : coll[j] = view[i]
          /\ Passes(view[i])
    /\ \A j \in 1..Len(coll) :
          Passes(coll[j]) <=> (\E i \in 1..Len(view) : view[i] = coll[j])
    /\ Len(view) = Cardinality({j \in 1..Len(coll) : Passes(coll[j])})

\* C1: the filtered view holds only entries of the collection, every entry
\* of the view passes every active criterion, no entry that fails one is in
\* the view, and an empty query and selectors set to "All" exclude nothing;
\* one ticket of priority High filtered with Medium gives the empty view.
C1_FilterExact ==
    /\ page = TicketPage =>
          /\ ExactlyThePassing(filteredTickets, tickets, TicketPasses)
          /\ (searchQuery = <<>> /\ priorityFilter = "All"
                /\ statusFilter = "All") => filteredTickets = tickets
          /\ (Len(tickets) = 1 /\ tickets[1].priority = "High"
                /\ priorityFilter = "Medium") => filteredTickets = <<>>
    /\ page = LogPage =>
          /\ ExactlyThePassing(filteredLogs, tickets, LogPasses)
          /\ (searchQuery = <<>> /\ severityFilter = "All") =>
                Len(filteredLogs) = Len(tickets)

\* a ticket of priority High alone in the collection, hidden by the
\* selector Medium, while another criterion is active too
C1_Witness ==
    /\ page = TicketPage
    /\ Len(tickets) = 1 /\ tickets[1].priority = "High"
    /\ priorityFilter = "Medium" /\ statusFilter = tickets[1].status
    /\ searchQuery # <<>>
    /\ ContainsIgnoreCase(tickets[1].description, searchQuery)
    /\ filteredTickets = <<>>

\* C5: the log view is in ascending order of severity key, and two entries
\* with equal keys are in the order they have in the fetched collection.
C5_SortedStable ==
    page = LogPage =>
        \A i, j \in 1..Len(filteredLogs) :
            i < j =>
               /\ SeverityKey(filteredLogs[i]) <= SeverityKey(filteredLogs[j])
               /\ SeverityKey(filteredLogs[i]) = SeverityKey(filteredLogs[j])
                     => filteredLogs[i].id < filteredLogs[j].id

\* a view that the sort reordered and that holds two entries with one key
C5_Witness ==
    /\ page = LogPage
    /\ Len(filteredLogs) = 3
    /\ filteredLogs[1].id > filteredLogs[3].id
    /\ SeverityKey(filteredLogs[1]) = SeverityKey(filteredLogs[2])
    /\ SeverityKey(filteredLogs[2]) < SeverityKey(filteredLogs[3])

\* C9: the GET /logs sent on mount settles in one of two ways: on success
\* the collection is the parsed array; on failure an error state is
\* recorded, loading has ceased and the collection is empty.
C9_FetchLogsOutcome ==
    (page = LogPage /\ lastOp.op = "fetchLogs") =>
        /\ ~loading
        /\ lastOp.arg.kind = "ok" => tickets = lastOp.arg.data
        /\ lastOp.arg.kind \in {"http_error", "network_error"} =>
              /\ Truthy(error)
              /\ tickets = <<>>

-----------------------------------------------------------------------------
(* The forms.                                                              *)

\* s is empty or holds white space only
Blank(s) == \A i \in 1..Len(s) : s[i] \in {" ", "\t"}

\* a required field of the mounted form is blank
RequiredBlank ==
    \/ Blank(title)
    \/ page = LogPage /\ Blank(description)

\* C6: a submit attempt with a blank required field (the title; in the log
\* form also the description) calls nothing and sends nothing, leaves the
\* collection and the form fields as they are, the loading flag false and
\* the dialog open.
C6_BlankSubmitNoOp ==
    [][(lastOp'.op = "handleSubmit" /\ RequiredBlank) =>
          /\ lastOp'.effects = <<>>
          /\ UNCHANGED <<tickets, network, title, description, priority,
                         hostname, formLoading, open, selectedIds>>
          /\ formLoading' = FALSE
          /\ open' = TRUE]_vars

\* the log form after a submit attempt with a title and a description of
\* white space only
C6_Witness ==
    /\ page = LogPage
    /\ lastOp.op = "handleSubmit"
    /\ title = <<"a">>
    /\ description = <<" ", "\t">>
    /\ open
    /\ network = <<>>

\* the POST still in flight
PostInFlight == CHOOSE r \in Range(network) : r.method = "POST"

\* C7: when the POST of the log form succeeds, onSubmit is called exactly
\* once, with the payload built from the entered values, the fields are
\* reset and the dialog is closed; when it fails (transport error or non-2xx
\* status), onSubmit is not called, an alert is shown, the dialog and the
\* entered values are left as they are.  Either way loading is false again,
\* and onSubmit is called in no other step.
C7_SubmitOutcome ==
    [][page = LogPage =>
        /\ lastOp'.op = "submitSettled" =>
              LET resp == lastOp'.arg
                  sent == PostInFlight.body
              IN  /\ formLoading' = FALSE
                  /\ sent.log_line = description
                  /\ sent.label = <<"B", "A", "D">> \o title
                                    \o <<"_", charAt0(priority)>>
                  /\ resp.kind = "ok" =>
                        /\ lastOp'.effects = <<Effect("onSubmit", sent)>>
                        /\ title' = <<>> /\ description' = <<>>
                        /\ hostname' = <<>> /\ priority' = "Medium"
                        /\ open' = FALSE
                  /\ resp.kind \in {"http_error", "network_error"} =>
                        /\ ~Called(lastOp', "onSubmit")
                        /\ Called(lastOp', "alert")
                        /\ UNCHANGED <<open, title, description, hostname,
                                       priority, tickets>>
        /\ lastOp'.op # "submitSettled" => ~Called(lastOp', "onSubmit")]_vars

\* the log form after a POST that was answered with a non-2xx status: still
\* open, the entered values kept, not loading
C7_Witness ==
    /\ page = LogPage
    /\ lastOp.op = "submitSettled"
    /\ lastOp.arg.kind = "http_error"
    /\ open /\ title = <<"a">> /\ description = <<"b">>
    /\ hostname = <<"h">> /\ priority = "Critical"
    /\ ~formLoading

\* C8: after every successful form submission the collection of the page is
\* the previous collection with the new record appended at the end.
C8_SubmitAppends ==
    [][Called(lastOp', "onSubmit") =>
        LET sent == lastOp'.effects[1].arg
        IN  /\ Len(tickets') = Len(tickets) + 1
            /\ SubSeq(tickets', 1, Len(tickets)) = tickets
            /\ page = TicketPage =>
                  /\ tickets'[Len(tickets')].title = sent.title
                  /\ tickets'[Len(tickets')].description = sent.description
            /\ page = LogPage =>
                  /\ tickets'[Len(tickets')].label = sent.label
                  /\ tickets'[Len(tickets')].log_line = sent.log_line]_vars

-----------------------------------------------------------------------------
(* The server page.                                                        *)

\* C10: when GET /servers/list fails (transport error or non-ok status) the
\* message is recorded, loading is false and the collection stays empty;
\* from then on the page shows the error, the error is never cleared and no
\* rack is selected.  When it succeeds the collection is the servers array
\* of the response, or empty when the field is absent, and no error is
\* recorded.
C10_FetchServersOutcome ==
    /\ [](page = ServerPage =>
            /\ lastOp.op = "fetchServers" =>
                  /\ ~loading
                  /\ lastOp.arg.kind # "ok" =>
                        /\ error \notin {Null, ""}
                        /\ servers = <<>>
                  /\ lastOp.arg.kind = "ok" =>
                        /\ error = Null
                        /\ "servers" \in DOMAIN lastOp.arg.data =>
                              servers = lastOp.arg.data.servers
                        /\ "servers" \notin DOMAIN lastOp.arg.data =>
                              servers = <<>>
            /\ error # Null =>
                  /\ ServerView = "Error"
                  /\ selectedRack = Null
                  /\ servers = <<>>)
    /\ [][(page = ServerPage /\ error # Null) =>
            /\ error' = error
            /\ selectedRack' = Null]_vars

\* the page after a GET answered with status 500
C10_Witness ==
    /\ page = ServerPage
    /\ lastOp.op = "fetchServers"
    /\ lastOp.arg.kind = "http_error"
    /\ error = "Failed to fetch servers: 500"
    /\ ServerView = "Error"

-----------------------------------------------------------------------------
(* The role gate of the ticket board.                                      *)

\* C11: the selection checkboxes, Delete Selected and the status editor act
\* only in states where role = "Technician"; while role = "Engineer" no step
\* changes the selection, removes a ticket or changes a ticket's status.
C11_RoleGate ==
    [][/\ lastOp'.op \in {"handleSelect", "handleDelete", "handleStatusChange"}
            => role = "Technician"
       /\ role = "Engineer" =>
            /\ selectedIds' = selectedIds
            /\ Len(tickets') >= Len(tickets)
            /\ SubSeq(tickets', 1, Len(tickets)) = tickets]_vars

\* an engineer looking at a board on which a technician left a selection
C11_Witness ==
    /\ page = TicketPage
    /\ role = "Engineer"
    /\ lastOp.op = "setRole"
    /\ filteredTickets # <<>>
    /\ selectedIds # <<>>

-----------------------------------------------------------------------------
(* Submissions in flight.                                                  *)

\* the POSTs sent and not yet answered
PostsInFlight == {k \in 1..Len(network) : network[k].method = "POST"}

\* C12 as claimed: a second submission can be started while an earlier one
\* awaits its response, that is, with the form open on valid values the
\* submit handler can run whether or not a POST is in flight.
C12_NoRaceGuard ==
    (/\ page = LogPage
     /\ PostsInFlight # {}
     /\ open /\ ~Blank(title) /\ ~Blank(description))
        => ENABLED LogHandleSubmit

\* C12 as amended: a mounted log form has at most one POST in flight, and
\* it has one exactly while its loading flag is set; no submit handler runs
\* while the flag is set.
C12_OnePostInFlight ==
    /\ [](page = LogPage =>
            /\ Cardinality(PostsInFlight) <= 1
            /\ formLoading <=> PostsInFlight # {})
    /\ [][(page = LogPage /\ formLoading)
              => lastOp'.op # "handleSubmit"]_vars

\* the log form closed and opened again while its POST is awaited: the
\* values are valid, the button is disabled
C12_Witness ==
    /\ page = LogPage
    /\ lastOp.op = "setOpen" /\ open
    /\ PostsInFlight # {}
    /\ ~Blank(title) /\ ~Blank(description)
    /\ SubmitDisabled

-----------------------------------------------------------------------------
(* The rack views.                                                         *)

\* C13: the rack view starts in Overview; selecting rack r in Overview
\* leads to RackDetail for r, the back action of RackDetail leads to
\* Overview, the selection changes in no other way, and neither step
\* changes the server collection, loading or error.
C13_RackStateMachine ==
    /\ selectedRack = Null
    /\ [][page = ServerPage =>
            /\ selectedRack' # selectedRack => lastOp'.op = "setSelectedRack"
            /\ lastOp'.op = "setSelectedRack" =>
                  /\ UNCHANGED <<servers, loading, error>>
                  /\ \/ /\ ServerView = "Overview"
                        /\ lastOp'.arg \in Range(RACK_LABELS)
                        /\ selectedRack' = lastOp'.arg
                        /\ ServerView' = "RackDetail"
                     \/ /\ ServerView = "RackDetail"
                        /\ lastOp'.arg = Null
                        /\ selectedRack' = Null
                        /\ ServerView' = "Overview"]_vars

\* back in the overview after a visit to a rack
C13_Witness ==
    /\ page = ServerPage
    /\ lastOp.op = "setSelectedRack" /\ lastOp.arg = Null
    /\ ServerView = "Overview"
    /\ servers # <<>>

\* the servers of the collection that sit in the selected rack
InSelectedRack == {i \in 1..Len(servers) : servers[i].rack.label = selectedRack}

\* rows are the 8 slot rows: row k is numbered k and shows a server of the
\* selected rack with slot number k when there is one, "empty" otherwise
EightSlotRows(rows) ==
    /\ Len(rows) = 8
    /\ \A k \in 1..8 :
          /\ rows[k].slot = k
          /\ IF \E i \in InSelectedRack : servers[i].slot = k
             THEN \E i \in InSelectedRack :
                     /\ servers[i].slot = k
                     /\ rows[k].text = servers[i].hostname
             ELSE rows[k].text = EmptySlot

\* C14 as claimed: for every selected rack the rack view shows the 8 slot
\* rows.
C14_EightSlots ==
    (page = ServerPage /\ ServerView = "RackDetail")
        => EightSlotRows(RackDetailRows)

\* C14 as amended: the rack view of a rack that holds a server shows the 8
\* slot rows; the rack view of a rack without servers shows no slot row.
C14_EightSlotsIfOccupied ==
    (page = ServerPage /\ ServerView = "RackDetail") =>
        IF InSelectedRack # {} THEN EightSlotRows(RackDetailRows)
                               ELSE RackDetailRows = <<>>

\* the view of a rack with servers in the slots 2 and 5
C14_Witness ==
    /\ page = ServerPage /\ ServerView = "RackDetail"
    /\ {servers[i].slot : i \in InSelectedRack} = {2, 5}
    /\ {k \in 1..Len(RackDetailRows) : RackDetailRows[k].text = EmptySlot}
          = {1, 3, 4, 6, 7, 8}

\* the place of server x in the collection
PlaceOf(x) == CHOOSE i \in 1..Len(servers) : servers[i] = x

\* C15: the bucket of label r holds exactly the servers whose rack label is
\* r, in collection order; a server is in at most one bucket, and in none
\* when its label is missing or outside R1..R36; the overview shows for r
\* the size of its bucket, and "empty" for a rack no server matches.
C15_RackBuckets ==
    page = ServerPage =>
        LET buckets == racks
            labelOf == [i \in 1..Len(servers) |-> servers[i].rack.label]
        IN  /\ \A r \in RackKeys :
                  LET members == {i \in 1..Len(servers) : labelOf[i] = r}
                      bucket  == buckets[r]
                  IN  /\ Range(bucket) = {servers[i] : i \in members}
                      /\ Len(bucket) = Cardinality(members)
                      /\ \A a, b \in 1..Len(bucket) :
                            a < b => PlaceOf(bucket[a]) < PlaceOf(bucket[b])
                      /\ members = {} => rackCardText(r) = "empty"
                      /\ members # {} =>
                            /\ rackCount(r) = Cardinality(members)
                            /\ rackCardText(r) # "empty"
            /\ \A i \in 1..Len(servers) :
                  LET holding == {r \in RackKeys :
                                     servers[i] \in Range(buckets[r])}
                  IN  /\ Cardinality(holding) <= 1
                      /\ labelOf[i] \notin RackKeys
                            => holding = {}

\* an overview of two servers of R1 with a server of an unknown rack
C15_Witness ==
    /\ page = ServerPage /\ ServerView = "Overview"
    /\ Len(servers) = 3
    /\ Len(racks["R1"]) = 2
    /\ \E i \in 1..3 : servers[i].rack.label = "R37"
    /\ rackCardText("R1") = "2 servers"
    /\ rackCardText("R2") = "empty"

\* C16: the aisle grouping is 6 groups of 6 labels, and the groups read in
\* order are R1, R2, ..., R36.
C16_AisleGroups ==
    page = ServerPage =>
        /\ Len(aisleGroups) = 6
        /\ \A g \in 1..Len(aisleGroups) :
              /\ Len(aisleGroups[g]) = 6
              /\ \A j \in 1..Len(aisleGroups[g]) :
                    aisleGroups[g][j] = "R" \o ToString(6 * (g - 1) + j)

\* an overview that shows the aisles
C16_Witness ==
    /\ page = ServerPage /\ ServerView = "Overview"
    /\ lastOp.op = "fetchServers"
    /\ Len(servers) = 1
    /\ aisleGroups[1][1] = "R1"
    /\ aisleGroups[6][6] = "R36"

\* C20: selectedRack is null or one of R1..R36, and it is not null only
\* when the fetch has completed without error and the server collection is
\* not empty; the rack view is shown in no other state.
C20_SelectedRack ==
    page = ServerPage =>
        /\ selectedRack \in {Null} \cup RackKeys
        /\ (selectedRack # Null \/ ServerView = "RackDetail") =>
              /\ ~loading
              /\ network = <<>>
              /\ error = Null
              /\ servers # <<>>

\* the view of the last rack
C20_Witness ==
    /\ page = ServerPage /\ ServerView = "RackDetail"
    /\ selectedRack = "R36"
    /\ lastOp.op = "setSelectedRack"
    /\ Len(servers) = 1

-----------------------------------------------------------------------------
(* The selection of the ticket board.                                      *)

\* C17: every selected identifier is the identifier of an entry of the
\* collection; Delete Selected runs on a selection that is not empty and
\* empties it in the step that removes the tickets; with an empty selection
\* no step removes a ticket.
C17_SelectionInCollection ==
    /\ [](page = TicketPage => Range(selectedIds) \subseteq IdsOf(tickets))
    /\ [][page = TicketPage =>
            /\ lastOp'.op = "handleDelete" =>
                  /\ selectedIds # <<>>
                  /\ selectedIds' = <<>>
                  /\ Len(tickets') < Len(tickets)
            /\ selectedIds = <<>> =>
                  /\ Len(tickets') >= Len(tickets)
                  /\ IdsOf(tickets) \subseteq IdsOf(tickets')]_vars

\* one of two tickets deleted: a ticket is left, the selection is empty
C17_Witness ==
    /\ page = TicketPage
    /\ lastOp.op = "handleDelete"
    /\ Len(tickets) = 1
    /\ selectedIds = <<>>

\* the entry is selected: its checkbox is checked
Selected(t) == t.id \in Range(selectedIds)

\* the entry is in the filtered view
Shown(t) == \E i \in 1..Len(filteredTickets) : filteredTickets[i] = t

\* C18: a filter change keeps the selection; Delete Selected removes every
\* selected ticket from the collection, in the view or hidden by the
\* filter, and keeps every ticket that is not selected.
C18_DeleteHiddenSelected ==
    [][page = TicketPage =>
        /\ lastOp'.op = "setStatusFilter" => selectedIds' = selectedIds
        /\ lastOp'.op = "handleDelete" =>
              /\ \A i \in 1..Len(tickets) :
                    Selected(tickets[i])
                        => tickets[i].id \notin IdsOf(tickets')
              /\ tickets' = SelectSeq(tickets, LAMBDA t : ~Selected(t))]_vars

\* a selected ticket that a change of the status filter has hidden, next to
\* a shown one, with Delete Selected ready
C18_Witness ==
    /\ page = TicketPage
    /\ lastOp.op = "setStatusFilter"
    /\ \E i \in 1..Len(tickets) : Selected(tickets[i]) /\ ~Shown(tickets[i])
    /\ \E i \in 1..Len(tickets) : Shown(tickets[i])
    /\ ENABLED HandleDeleteSelected

-----------------------------------------------------------------------------
(* The collection under filter changes.                                    *)

FilterOps ==
    {"setSearchQuery", "setPriorityFilter", "setStatusFilter",
     "setSeverityFilter"}

\* every criterion is empty or "All"
CriteriaReset ==
    /\ searchQuery = <<>>
    /\ priorityFilter = "All" /\ statusFilter = "All"
    /\ severityFilter = "All"

\* C19: a change of the query or of a selector leaves the collection as it
\* is, entries, fields and order; with every criterion reset the view
\* shows every entry of the collection.
C19_FilterKeepsCollection ==
    /\ [][lastOp'.op \in FilterOps => tickets' = tickets]_vars
    /\ [](CriteriaReset =>
            /\ page = TicketPage => filteredTickets = tickets
            /\ page = LogPage =>
                  /\ Len(filteredLogs) = Len(tickets)
                  /\ Range(filteredLogs) = Range(tickets))

\* the log view after the criteria were reset: all three entries, in sorted
\* order, over a collection that keeps its fetched order
C19_Witness ==
    /\ page = LogPage
    /\ lastOp.op = "setSeverityFilter"
    /\ CriteriaReset
    /\ Len(tickets) = 3
    /\ \A i \in 1..3 : tickets[i].id = i
    /\ Len(filteredLogs) = 3
    /\ filteredLogs # tickets

-----------------------------------------------------------------------------
(* The severity key of a record the log form creates.                      *)

Letters == {"L", "M", "H", "C"}

\* the record a POST body becomes in the collection of GET /logs
AsLogEntry(body, id) ==
    [id |-> id, hostname |-> body.hostname, label |-> body.label,
     log_line |-> body.log_line]

\* a fetched record whose label ends in the digit d
KeyedEntry(d, id) ==
    [id |-> id, hostname |-> <<"c">>, label |-> <<"x", d>>,
     log_line |-> <<"e">>]

\* C21: the label of every POST the log form sends ends in a letter, so the
\* record has severity key 0: no severity selector value 1..4 shows it,
\* "All" shows it, and the view puts it before every entry with key 1..4,
\* also one fetched before it.
C21_FormLabelKeyZero ==
    page = LogPage =>
        \A k \in PostsInFlight :
            LET body    == network[k].body
                created == AsLogEntry(body, 2)
            IN  /\ body.label[Len(body.label)] \in Letters
                /\ priorityNum(created) = 0
                /\ \A sev \in SeverityFilters :
                      (LogView(<<created>>, <<>>, sev) # <<>>) <=> sev = "All"
                /\ \A d \in {"1", "2", "3", "4"} :
                      LogView(<<KeyedEntry(d, 1), created>>, <<>>, "All")
                          = <<created, KeyedEntry(d, 1)>>

\* a Critical log with a title that ends in a digit, just submitted
C21_Witness ==
    /\ page = LogPage
    /\ lastOp.op = "handleSubmit"
    /\ priority = "Critical" /\ title = <<"7">>
    /\ PostsInFlight # {}
    /\ network[Len(network)].body.label = <<"B", "A", "D", "7", "_", "C">>

====
